---- MODULE Spec2Model ----
(***************************************************************************)
(* The fan-in aggregator of the bill pipeline (assembler/main.py): the     *)
(* poll loop over summaries.q, handle_message, try_emit_article and the    *)
(* three-strategy upsert of /output/articles.json.  After it, the two      *)
(* stage processors (fetcher/main.py, summarizer/main.py) and the task     *)
(* dispatcher (controller/main.py).                                        *)
(***************************************************************************)
EXTENDS Integers, Sequences, FiniteSets, TLC

VARIABLES
    state,               \* bill_id -> BillRecord (the dict `state`)
    completed_bill_ids,  \* the set `completed_bill_ids`
    articles_file,       \* /output/articles.json on disk
    tmp_file,            \* /output/articles.json.tmp on disk
    pc,                  \* position of the process in its poll loop
    msg,                 \* the message being handled
    existing,            \* local `existing` of _write_articles_file (the new list)
    wrote,               \* which exit of _write_articles_file was taken
    uncommitted,         \* messages of the partition at or after the committed offset
    pos,                 \* how many of `uncommitted` this process has polled
    before,              \* articles_file as it was when the running upsert began
    crashed_at,          \* pc at which the process was killed (while pc = "down")
    delivered,           \* history: the PartialResults handed to handle_message
    latest,              \* history: bill_id -> article of its last successful upsert
    upsert_failed,       \* history: some upsert ended with no strategy succeeding
    stage,               \* the stage processor that runs: "fetcher" or "summarizer"
    s_pc,                \* position of the stage process in its poll loop
    s_log,               \* the input partition of the stage, oldest message first
    s_committed,         \* committed offset of the stage's consumer group
    s_position,          \* offset the stage's consumer polls next
    s_offset,            \* msg.offset() of the message being processed, -1 if none
    s_result,            \* what the transform of the message returned
    s_queue,             \* messages produced and not yet flushed
    s_topic,             \* the output topic of the stage
    s_pending,           \* history: offsets whose last summary was unusable
    s_kills,             \* how many times the stage process was killed
    s_reply,             \* history: what the API requests of this iteration got
    d_pc,                \* position of the dispatcher in its script
    d_next,              \* how many (bill, question) pairs the loops have done
    d_sent,              \* the messages handed to p.produce, in order
    d_acks,              \* how many of them have had their delivery report
    d_failed,            \* indexes in d_sent of the messages the broker lost
    d_reported,          \* indexes in d_sent logged as "Delivery failed"
    total,               \* the counter `total`
    handled,             \* history: the messages given to handle_message, in order
    o_pc,                \* position of a second aggregator instance in its upsert
    o_existing           \* local `existing` of the second instance's upsert

aggVars == <<state, completed_bill_ids, articles_file, tmp_file, pc, msg,
             existing, wrote, uncommitted, pos, before, crashed_at>>
histVars == <<delivered, latest, upsert_failed, handled>>
stageVars == <<stage, s_pc, s_log, s_committed, s_position, s_offset, s_result,
               s_queue, s_topic, s_pending, s_kills, s_reply>>
vars == <<state, completed_bill_ids, articles_file, tmp_file, pc, msg,
          existing, wrote, uncommitted, pos, before, crashed_at,
          delivered, latest, upsert_failed,
          stage, s_pc, s_log, s_committed, s_position, s_offset, s_result,
          s_queue, s_topic, s_pending, s_kills, s_reply,
          d_pc, d_next, d_sent, d_acks, d_failed, d_reported, total,
          handled, o_pc, o_existing>>
peerVars == <<o_pc, o_existing>>
dispVars == <<d_pc, d_next, d_sent, d_acks, d_failed, d_reported, total>>

\* a step of the aggregator leaves the other processes alone
OtherProcesses == UNCHANGED <<stageVars, dispVars, peerVars>>

----------------------------------------------------------------------------
(* Program constants *)

PLACEHOLDER == "No summary available."
REQUIRED_QIDS == {1, 2, 3, 4, 5, 6, 7}
TRUSTED == "www.congress.gov"

(* Bounds of the model *)

\* longest backlog of polled-but-uncommitted messages before polling stops
MaxUncommitted == 2
\* number of distinct valid summary texts a question may arrive with
MaxTexts == 2

----------------------------------------------------------------------------
(* Input data *)

Bill == "HR.1"
OtherBill == "S.2"

TextName == <<"a", "b", "c", "d">>
Texts == {TextName[i] : i \in 1..MaxTexts}

\* a URL is its sequence of parts; `"www.congress.gov" in u` is a part test
WebLink == <<"https://", "www.congress.gov", "/bill/119/hr/1">>
ApiLink == <<"https://", "api.congress.gov", "/v3/bill/119/hr/1">>

\* an element of a JSON list: a string, or a value of another type
Item(v) == [is_str |-> TRUE, v |-> v]
NonStr(v) == [is_str |-> FALSE, v |-> v]

\* a key that is absent reads like its empty value: "" is falsy at lines
\* 178-181, and an empty list adds nothing at line 183
NoMeta == [bill_title |-> "", sponsor_bioguide_id |-> "", bill_committee_ids |-> <<>>]

\* metadata the fetcher attaches: q1 title, q2 committees, q3 sponsor
MetaOf(q, t) ==
    CASE q = 1 -> [NoMeta EXCEPT !.bill_title = IF t = "a" THEN "Title" ELSE "Title v2"]
      [] q = 2 -> [NoMeta EXCEPT !.bill_committee_ids =
                        <<Item("hsju00"), NonStr("7"), Item("hsju00")>>]
      [] q = 3 -> [NoMeta EXCEPT !.sponsor_bioguide_id = "A000001"]
      [] OTHER -> NoMeta

LinksOf(q) == IF q = 1 THEN {WebLink, ApiLink} ELSE {}

\* qid_int: the JSON value of question_id is an integer number; qid_bool: it
\* is true or false, which json.loads turns into True or False
Data(b, q, s, l, md) ==
    [kind |-> "data", bill_id |-> b, qid_int |-> TRUE, qid_bool |-> FALSE,
     question_id |-> q, summary |-> s, links |-> l, metadata |-> md]

NoMsg == [kind |-> "none", bill_id |-> "", qid_int |-> FALSE, qid_bool |-> FALSE,
          question_id |-> 0, summary |-> "", links |-> {}, metadata |-> NoMeta]
BadJson == [NoMsg EXCEPT !.kind = "badjson"]

\* one valid PartialResult per question, text "a"
BaseMsgs(b) == {Data(b, q, "a", LinksOf(q), MetaOf(q, "a")) : q \in REQUIRED_QIDS}
\* question 1 answered with another text (a second LLM run)
AltMsgs(b) == {Data(b, 1, t, {}, MetaOf(1, t)) : t \in Texts \ {"a"}}
\* sentinel and empty summaries
NullMsgs(b) == {Data(b, 2, PLACEHOLDER, {}, NoMeta), Data(b, 3, "", {}, NoMeta)}
\* payloads handle_message drops at line 163
Malformed(b) == {Data("", 1, "a", {}, NoMeta),
                 [Data(b, 0, "a", {}, NoMeta) EXCEPT !.qid_int = FALSE]}

\* "question_id": true; True is the dict key 1 (True == 1, same hash)
BoolQid(b) == [Data(b, 1, "a", {}, NoMeta) EXCEPT !.qid_int = FALSE, !.qid_bool = TRUE]

Msgs == BaseMsgs(Bill) \cup AltMsgs(Bill) \cup NullMsgs(Bill)
        \cup Malformed(Bill) \cup {BadJson}

----------------------------------------------------------------------------
(* Files *)

Missing == [kind |-> "missing", recs |-> <<>>]
Garbled == [kind |-> "malformed", recs |-> <<>>]   \* truncated, empty or not a JSON list
Doc(rs) == [kind |-> "doc", recs |-> rs]

\* lines 86-94: a missing or unparseable document reads as []
LoadExisting(f) == IF f.kind = "doc" THEN f.recs ELSE <<>>

\* line 97, mutated: append without removing the old record
UpsertAppendOnly(recs, article_obj) == Append(recs, article_obj)

\* line 97: drop every record of the same bill_id, append the new one
Upsert(recs, article_obj) ==
    Append(SelectSeq(recs, LAMBDA r : r.bill_id # article_obj.bill_id), article_obj)

----------------------------------------------------------------------------
(* Pure helpers of assembler/main.py *)

\* line 37, mutated: the comparison is turned round (<= for >=)
_have_all_reversed(summaries) == DOMAIN summaries \subseteq REQUIRED_QIDS

\* lines 36-37
_have_all(summaries) == REQUIRED_QIDS \subseteq DOMAIN summaries

EmptyFn == [x \in {} |-> ""]

_init_bill(bill_id) ==
    [bill_id |-> bill_id, bill_title |-> "", sponsor_bioguide_id |-> "",
     bill_committee_ids |-> <<>>, summaries |-> EmptyFn, links |-> {}]

RECURSIVE UniqueFrom(_, _)
UniqueFrom(seq, out) ==
    IF seq = <<>> THEN out
    ELSE UniqueFrom(Tail(seq),
                    IF \E i \in 1..Len(out) : out[i] = Head(seq)
                    THEN out ELSE Append(out, Head(seq)))

\* lines 50-56, mutated: nothing is dropped
_safe_list_keep_all(seq) == seq

_safe_list_unique(seq) == UniqueFrom(seq, <<>>)

\* str.strip() on the texts of the model
Strip(s) == IF s \in {" ", "  "} THEN "" ELSE s

Heading == [q \in 2..7 |->
    CASE q = 2 -> "Committees" [] q = 3 -> "Sponsor"
      [] q = 4 -> "Cosponsors & overlap" [] q = 5 -> "Hearings"
      [] q = 6 -> "Amendments" [] OTHER -> "Votes"]

RECURSIVE Sections(_, _)
Sections(summaries, q) ==
    IF q > 7 THEN <<>>
    ELSE LET sq == IF q \in DOMAIN summaries THEN Strip(summaries[q]) ELSE ""
             head == IF q = 1 THEN "" ELSE Heading[q]
         IN  (IF sq # "" THEN << <<head, sq>> >> ELSE <<>>) \o Sections(summaries, q + 1)

\* the markdown as its list of blocks: the "## bill" line, the lead, the sections
_build_article_content(bill_id, summaries) ==
    << <<"##", bill_id>> >> \o Sections(summaries, 1)

ArticleObj(b) ==
    [bill_id |-> b.bill_id, bill_title |-> b.bill_title,
     sponsor_bioguide_id |-> b.sponsor_bioguide_id,
     bill_committee_ids |-> b.bill_committee_ids,
     article_content |-> _build_article_content(b.bill_id, b.summaries)]

IsTrusted(u) == \E i \in 1..Len(u) : u[i] = TRUSTED

\* line 186, mutated: last write wins
StoreSummaryOverwrite(summaries, qid, summary) ==
    IF summary # "" /\ summary # PLACEHOLDER
    THEN [q \in DOMAIN summaries \cup {qid} |->
             IF q = qid THEN summary ELSE summaries[q]]
    ELSE summaries

\* line 186, mutated: the placeholder test is missing
StoreSummaryAny(summaries, qid, summary) ==
    IF qid \notin DOMAIN summaries
    THEN [q \in DOMAIN summaries \cup {qid} |->
             IF q = qid THEN summary ELSE summaries[q]]
    ELSE summaries

\* lines 185-187
StoreSummary(summaries, qid, summary) ==
    IF summary # "" /\ summary # PLACEHOLDER /\ qid \notin DOMAIN summaries
    THEN [q \in DOMAIN summaries \cup {qid} |->
             IF q = qid THEN summary ELSE summaries[q]]
    ELSE summaries

\* lines 178-192: the merge of one message into the bill's record
Merge(b, data) ==
    LET md == data.metadata IN
    [b EXCEPT
       !.bill_title = IF md.bill_title # "" THEN md.bill_title ELSE @,
       !.sponsor_bioguide_id =
            IF md.sponsor_bioguide_id # "" THEN md.sponsor_bioguide_id ELSE @,
       !.bill_committee_ids =
            _safe_list_unique(@ \o SelectSeq(md.bill_committee_ids, LAMBDA x : x.is_str)),
       !.summaries = StoreSummary(@, data.question_id, data.summary),
       !.links = @ \cup {u \in data.links : IsTrusted(u)}]

\* line 163: not bill_id or not isinstance(qid, int); bool is a subclass of
\* int, so isinstance(True, int) holds
IsWellFormed(data) == data.bill_id # "" /\ (data.qid_int \/ data.qid_bool)

\* line 166, mutated: completed bills are merged again
SkipsCompletedNever(bill_id, done) == FALSE

\* line 166
SkipsCompleted(bill_id, done) == bill_id \in done

Record(st, bill_id) == IF bill_id \in DOMAIN st THEN st[bill_id] ELSE _init_bill(bill_id)

----------------------------------------------------------------------------
(* The poll loop of the aggregator *)

EmptyState == [x \in {} |-> _init_bill("")]

\* lines 86-97: read the collection, compute the upserted list
BeginUpsert(article_obj) ==
    /\ existing' = Upsert(LoadExisting(articles_file), article_obj)
    /\ before' = articles_file
    /\ pc' = "open_tmp"

\* lines 125-152: the guards of try_emit_article and the call of
\* _write_articles_file; b is state[bill_id] after the merge
try_emit_article(b) ==
    IF b.bill_id \notin completed_bill_ids /\ _have_all(b.summaries)
    THEN BeginUpsert(ArticleObj(b))
    ELSE pc' = "handled" /\ UNCHANGED <<existing, before>>

\* lines 156-195, up to the first write of _write_articles_file
handle_message(data) ==
    IF ~IsWellFormed(data) \/ SkipsCompleted(data.bill_id, completed_bill_ids)
    THEN /\ pc' = "handled"
         /\ UNCHANGED <<state, existing, before>>
    ELSE LET b == Merge(Record(state, data.bill_id), data) IN
         /\ state' = (data.bill_id :> b) @@ state
         /\ try_emit_article(b)

\* lines 207-215: decode the payload, call handle_message
Receive(m) ==
    /\ pc = "poll"
    /\ msg' = m
    /\ wrote' = "none"
    /\ IF m.kind = "badjson"
       THEN /\ pc' = "badjson"
            /\ UNCHANGED <<state, existing, before>>
       ELSE handle_message(m)
    /\ UNCHANGED <<completed_bill_ids, articles_file, tmp_file, crashed_at>>
    /\ OtherProcesses

\* line 201: the next message of the partition, a redelivered one first
PollMsg(m) ==
    /\ IF pos < Len(uncommitted)
       THEN m = uncommitted[pos + 1] /\ UNCHANGED uncommitted
       ELSE /\ Len(uncommitted) < MaxUncommitted
            /\ uncommitted' = Append(uncommitted, m)
    /\ pos' = pos + 1
    /\ Receive(m)

\* c.commit(msg): the committed offset moves past msg and all before it
CommitMsg ==
    /\ uncommitted' = SubSeq(uncommitted, pos + 1, Len(uncommitted))
    /\ pos' = 0

\* the loop goes back to poll; the locals of the iteration are gone
NextIteration ==
    /\ pc' = "poll"
    /\ msg' = NoMsg
    /\ existing' = <<>>
    /\ before' = Missing
    /\ wrote' = "none"
    /\ UNCHANGED <<state, completed_bill_ids, articles_file, tmp_file, crashed_at>>
    /\ OtherProcesses

\* the bus and the loop left alone by a step inside _write_articles_file
FileFrame ==
    /\ UNCHANGED <<state, completed_bill_ids, msg, uncommitted, pos, before,
                   existing, crashed_at>>
    /\ OtherProcesses

\* line 100, mutated: the collection itself is opened for writing
OpenInPlace(ok) ==
    /\ pc = "open_tmp"
    /\ IF ok THEN articles_file' = Garbled /\ pc' = "dump_tmp"
             ELSE pc' = "raised" /\ UNCHANGED articles_file
    /\ UNCHANGED <<tmp_file, wrote>>
    /\ FileFrame

\* line 100: open(tmp, "w")
OpenTmp(ok) ==
    /\ pc = "open_tmp"
    /\ IF ok THEN tmp_file' = Garbled /\ pc' = "dump_tmp"
             ELSE pc' = "raised" /\ UNCHANGED tmp_file
    /\ UNCHANGED <<articles_file, wrote>>
    /\ FileFrame

\* line 101: json.dump(existing, f) into the temporary file
DumpTmp(ok) ==
    /\ pc = "dump_tmp"
    /\ IF ok THEN tmp_file' = Doc(existing) /\ pc' = "replace"
             ELSE tmp_file' = Garbled /\ pc' = "raised"
    /\ UNCHANGED <<articles_file, wrote>>
    /\ FileFrame

\* lines 102-105, mutated: no return after the rename, the overwrite follows
ReplaceFallsThrough(ok) ==
    /\ pc = "replace"
    /\ IF ok /\ tmp_file.kind # "missing" THEN /\ articles_file' = tmp_file
                  /\ tmp_file' = Missing
                  /\ wrote' = "rename"
             ELSE UNCHANGED <<articles_file, tmp_file, wrote>>
    /\ pc' = "open_overwrite"
    /\ FileFrame

\* lines 102-105: os.replace(tmp, articles_path); it fails as well when the
\* temporary file is gone
Replace(ok) ==
    /\ pc = "replace"
    /\ IF ok /\ tmp_file.kind # "missing" THEN /\ articles_file' = tmp_file
                  /\ tmp_file' = Missing
                  /\ wrote' = "rename"
                  /\ pc' = "written"
             ELSE /\ pc' = "open_overwrite"
                  /\ UNCHANGED <<articles_file, tmp_file, wrote>>
    /\ FileFrame

\* line 107: open(articles_path, "w") truncates the collection
OpenOverwrite(ok) ==
    /\ pc = "open_overwrite"
    /\ IF ok THEN articles_file' = Garbled /\ pc' = "dump_overwrite"
             ELSE pc' = "unlink" /\ UNCHANGED articles_file
    /\ UNCHANGED <<tmp_file, wrote>>
    /\ FileFrame

\* lines 108-110: json.dump(existing, out_f), return on success
DumpOverwrite(ok) ==
    /\ pc = "dump_overwrite"
    /\ IF ok THEN articles_file' = Doc(existing) /\ wrote' = "overwrite" /\ pc' = "cleanup"
             ELSE articles_file' = Garbled /\ pc' = "unlink" /\ UNCHANGED wrote
    /\ UNCHANGED tmp_file
    /\ FileFrame

\* lines 112-113 (and 117-118 when unlink fails)
Unlink(ok) ==
    /\ pc = "unlink"
    /\ IF articles_file.kind = "missing"
       THEN pc' = "open_recreate" /\ UNCHANGED <<articles_file, wrote>>
       ELSE IF ok
       THEN articles_file' = Missing /\ pc' = "open_recreate" /\ UNCHANGED wrote
       ELSE wrote' = "swallowed" /\ pc' = "cleanup" /\ UNCHANGED articles_file
    /\ UNCHANGED tmp_file
    /\ FileFrame

\* line 114 (and 117-118 when it fails)
OpenRecreate(ok) ==
    /\ pc = "open_recreate"
    /\ IF ok THEN articles_file' = Garbled /\ pc' = "dump_recreate" /\ UNCHANGED wrote
             ELSE wrote' = "swallowed" /\ pc' = "cleanup" /\ UNCHANGED articles_file
    /\ UNCHANGED tmp_file
    /\ FileFrame

\* lines 115-118
DumpRecreate(ok) ==
    /\ pc = "dump_recreate"
    /\ IF ok THEN articles_file' = Doc(existing) /\ wrote' = "recreate"
             ELSE articles_file' = Garbled /\ wrote' = "swallowed"
    /\ pc' = "cleanup"
    /\ UNCHANGED tmp_file
    /\ FileFrame

\* lines 119-123: finally, os.remove(tmp), errors ignored; the function returns
Cleanup(ok) ==
    /\ pc = "cleanup"
    /\ IF ok THEN tmp_file' = Missing ELSE UNCHANGED tmp_file
    /\ pc' = "written"
    /\ UNCHANGED <<articles_file, wrote>>
    /\ FileFrame

\* lines 153-154: completed_bill_ids.add(bill_id)
EmitDone ==
    /\ pc = "written"
    /\ completed_bill_ids' = completed_bill_ids \cup {msg.bill_id}
    /\ pc' = "handled"
    /\ UNCHANGED <<state, articles_file, tmp_file, msg, existing, wrote,
                   uncommitted, pos, before, crashed_at>>
    /\ OtherProcesses

\* line 216: handle_message returned
CommitHandled ==
    /\ pc = "handled"
    /\ CommitMsg
    /\ NextIteration

\* lines 209-212: bad JSON is committed and skipped
CommitBadJson ==
    /\ pc = "badjson"
    /\ CommitMsg
    /\ NextIteration

\* lines 217-219: handle_message raised; the handler commits as well
CommitRaised ==
    /\ pc = "raised"
    /\ CommitMsg
    /\ NextIteration

\* the process is killed: its memory is lost, the files and the bus stay
Crash ==
    /\ pc # "down"
    /\ pc' = "down"
    /\ crashed_at' = pc
    /\ state' = EmptyState
    /\ completed_bill_ids' = {}
    /\ msg' = NoMsg
    /\ pos' = 0
    /\ UNCHANGED <<articles_file, tmp_file, existing, wrote, uncommitted, before>>
    /\ OtherProcesses

\* the supervisor starts the process again: lines 20-34
Restart ==
    /\ pc = "down"
    /\ pc' = "poll"
    /\ crashed_at' = "none"
    /\ existing' = <<>>
    /\ before' = Missing
    /\ wrote' = "none"
    /\ UNCHANGED <<state, completed_bill_ids, articles_file, tmp_file, msg,
                   uncommitted, pos>>
    /\ OtherProcesses

----------------------------------------------------------------------------
(* The stage processors: the poll loops of fetcher/main.py (tasks.questions *)
(* to facts.raw) and summarizer/main.py (facts.raw to summaries.q)          *)

\* longest input partition of a stage
MaxLog == 2
\* how many times the stage process is killed and started again
MaxKills == 1

\* call_ollama(prompt, max_retries=3)
max_retries == 3

\* a value that is a string or None
Some(t) == [is_none |-> FALSE, text |-> t]
None == [is_none |-> TRUE, text |-> ""]

\* an input message of a stage: a Task has no links, an EnrichedFact has some
InMsg(b, q, l) == [kind |-> "ok", bill_id |-> b, question_id |-> q, links |-> l]
\* msg.value() is not JSON: json.loads raises
InvalidJson == [kind |-> "badjson", bill_id |-> "", question_id |-> 0, links |-> {}]
\* a JSON object without one of the keys read with task[...] / data[...]
MissingField == [kind |-> "nofield", bill_id |-> Bill, question_id |-> 1, links |-> {}]

Tasks == {InMsg(Bill, 1, {}), InMsg(Bill, 2, {})}
EnrichedFacts == {InMsg(Bill, 1, {WebLink, ApiLink}), InMsg(Bill, 2, {})}

StageInputs(st) ==
    (IF st = "fetcher" THEN Tasks ELSE EnrichedFacts) \cup {InvalidJson, MissingField}

\* the URLs the Congress API data of a bill can carry
ApiUrls == SUBSET {WebLink, ApiLink}

\* what one HTTP request to the Congress API ends in: an exception of
\* requests (connection, timeout, status), a body that is empty or not JSON,
\* a JSON list, or a JSON object
ApiFailures == {"network_error", "timeout", "http_error", "empty_body", "non_json"}
JsonObject(urls) == [kind |-> "json", is_dict |-> TRUE, urls |-> urls]
JsonList == [kind |-> "json_list", is_dict |-> FALSE, urls |-> {}]
ApiReplies ==
    {[kind |-> k, is_dict |-> FALSE, urls |-> {}] : k \in ApiFailures}
    \cup {JsonList} \cup {JsonObject(urls) : urls \in ApiUrls}

\* fetcher lines 32-46, mutated: the failure reaches the caller
_get_uncaught(reply) == reply

\* fetcher lines 32-46: {} on a failed request, the parsed body otherwise
_get(reply) == IF reply.kind \in ApiFailures THEN JsonObject({}) ELSE reply

\* the requests made for a question: bill_root and bill_summaries for 1
\* (lines 127-128), bill_committees for 2 (line 174)
NumRequests(qid) == IF qid = 1 THEN 2 ELSE 1

\* fetcher lines 119-367, the links: only trusted URLs are appended (161)
\* and the list is filtered once more before it is returned (364)
build_facts_for_question(qid, urls) ==
    [done |-> TRUE, summary |-> None, links |-> {u \in urls : IsTrusted(u)}]

\* one HTTP exchange with the LLM: an exception, or a JSON body with a response
Failed == [ok |-> FALSE, response |-> ""]
Reply(t) == [ok |-> TRUE, response |-> t]
Outcomes == {Failed, Reply(""), Reply(" "), Reply(PLACEHOLDER), Reply("a")}

\* summarizer lines 72-87: the attempts from `attempt` on
RECURSIVE Attempts(_, _)
Attempts(rs, attempt) ==
    IF attempt > max_retries THEN None
    ELSE IF rs[attempt].ok
    THEN LET resp == Strip(rs[attempt].response) IN
         IF resp # "" THEN Some(resp) ELSE Some(PLACEHOLDER)
    ELSE Attempts(rs, attempt + 1)

\* summarizer lines 71-87
call_ollama(rs) == Attempts(rs, 1)

\* summarizer line 113, mutated: only a failed call is retried
NeedsRetryOnlyNone(summary) == summary.is_none

\* summarizer line 113: not summary or summary == PLACEHOLDER
NeedsRetry(summary) ==
    summary.is_none \/ summary.text = "" \/ summary.text = PLACEHOLDER

NoResult == [done |-> FALSE, summary |-> None, links |-> {}]

\* the stage processors do not run
StageIdle ==
    /\ stage = "none"
    /\ s_pc = "idle"
    /\ s_log = <<>>
    /\ s_committed = 0
    /\ s_position = 0
    /\ s_offset = -1
    /\ s_result = NoResult
    /\ s_queue = <<>>
    /\ s_topic = <<>>
    /\ s_pending = {}
    /\ s_kills = 0
    /\ s_reply = <<>>

\* there is no second aggregator instance
PeerIdle ==
    /\ o_pc = "idle"
    /\ o_existing = <<>>

\* the dispatcher does not run
DispatcherIdle ==
    /\ d_pc = "idle"
    /\ d_next = 0
    /\ d_sent = <<>>
    /\ d_acks = 0
    /\ d_failed = {}
    /\ d_reported = {}
    /\ total = 0

\* a step of a stage processor leaves the aggregator alone
StageFrame == UNCHANGED <<aggVars, histVars, dispVars, peerVars>>

\* the message being processed
s_msg == s_log[s_offset + 1]

\* fetcher 374-386, summarizer 93-106: poll and decode; an exception of
\* json.loads or of a missing key is raised outside the inner try and ends
\* the loop in the outer except (fetcher 426-429, summarizer 140-143)
StagePoll(m) ==
    /\ s_pc = "poll"
    /\ IF s_position < Len(s_log)
       THEN m = s_log[s_position + 1] /\ UNCHANGED s_log
       ELSE /\ Len(s_log) < MaxLog
            /\ s_log' = Append(s_log, m)
    /\ s_offset' = s_position
    /\ s_position' = s_position + 1
    /\ s_result' = NoResult
    /\ s_pc' = IF m.kind = "ok" THEN "transform" ELSE "crashed"
    /\ s_reply' = <<>>
    /\ UNCHANGED <<stage, s_committed, s_queue, s_topic, s_pending, s_kills>>
    /\ StageFrame

\* fetcher 392-407: build_facts_for_question makes its requests through
\* _get and returns, or raises on a body that is not a JSON object
FetcherTransform(replies) ==
    /\ stage = "fetcher"
    /\ s_pc = "transform"
    /\ s_reply' = replies
    /\ IF \A i \in DOMAIN replies : _get(replies[i]).is_dict
       THEN /\ s_result' = build_facts_for_question(s_msg.question_id,
                                                    _get(replies[1]).urls)
            /\ s_pc' = "produce"
       ELSE s_pc' = "raised" /\ UNCHANGED s_result
    /\ UNCHANGED <<stage, s_log, s_committed, s_position, s_offset, s_queue,
                   s_topic, s_pending, s_kills>>
    /\ StageFrame

\* summarizer 110-128: build_prompt (which may raise), call_ollama, the
\* retry test; `continue` goes back to poll with nothing committed
SummarizerTransform(ok, rs) ==
    /\ stage = "summarizer"
    /\ s_pc = "transform"
    /\ IF ~ok
       THEN s_pc' = "raised" /\ UNCHANGED <<s_result, s_offset, s_pending>>
       ELSE LET summary == call_ollama(rs) IN
            IF NeedsRetry(summary)
            THEN /\ s_pc' = "poll"
                 /\ s_offset' = -1
                 /\ s_pending' = s_pending \cup {s_offset}
                 /\ UNCHANGED s_result
            ELSE /\ s_result' = [done |-> TRUE, summary |-> summary,
                                 links |-> s_msg.links]
                 /\ s_pc' = "produce"
                 /\ UNCHANGED <<s_offset, s_pending>>
    /\ UNCHANGED <<stage, s_log, s_committed, s_position, s_queue, s_topic, s_kills>>
    /\ UNCHANGED s_reply
    /\ StageFrame

\* the output message built at fetcher 395-407, summarizer 120-128; src is
\* the offset of the input it was made from
OutMsg ==
    [src |-> s_offset, key |-> s_msg.bill_id, bill_id |-> s_msg.bill_id,
     question_id |-> s_msg.question_id, summary |-> s_result.summary,
     links |-> s_result.links]

\* fetcher 410, summarizer 130: json.dumps and p.produce enqueue or raise
StageProduce(ok) ==
    /\ s_pc = "produce"
    /\ IF ok THEN s_queue' = Append(s_queue, OutMsg) /\ s_pc' = "flush"
             ELSE s_pc' = "raised" /\ UNCHANGED s_queue
    /\ UNCHANGED <<stage, s_log, s_committed, s_position, s_offset, s_result,
                   s_topic, s_pending, s_kills, s_reply>>
    /\ StageFrame

Sources(q) == {q[i].src : i \in 1..Len(q)}

\* fetcher 411, summarizer 131: p.flush() returns when the queue is delivered
StageFlush ==
    /\ s_pc = "flush"
    /\ s_topic' = s_topic \o s_queue
    /\ s_queue' = <<>>
    /\ s_pending' = s_pending \ Sources(s_queue)
    /\ s_pc' = "commit"
    /\ UNCHANGED <<stage, s_log, s_committed, s_position, s_offset, s_result, s_kills>>
    /\ UNCHANGED s_reply
    /\ StageFrame

\* c.commit(msg): the committed offset becomes msg.offset() + 1; the loop
\* goes back to poll
CommitInput ==
    /\ s_committed' = s_offset + 1
    /\ s_pc' = "poll"
    /\ s_offset' = -1
    /\ s_result' = NoResult
    /\ UNCHANGED <<stage, s_log, s_position, s_queue, s_topic, s_pending, s_kills>>
    /\ UNCHANGED s_reply
    /\ StageFrame

\* fetcher 412, summarizer 132
StageCommit == s_pc = "commit" /\ CommitInput

\* fetcher 419-422, summarizer 134-137: the handler of the inner try commits
StageCommitRaised == s_pc = "raised" /\ CommitInput

\* the stage process is killed; a produced message not yet flushed has been
\* sent by the client's background thread or is lost with the process
StageCrash(sent) ==
    /\ s_pc \notin {"down", "crashed"}
    /\ s_kills < MaxKills
    /\ s_kills' = s_kills + 1
    /\ s_pc' = "down"
    /\ s_offset' = -1
    /\ s_result' = NoResult
    /\ s_queue' = <<>>
    /\ IF sent THEN /\ s_topic' = s_topic \o s_queue
                    /\ s_pending' = s_pending \ Sources(s_queue)
               ELSE UNCHANGED <<s_topic, s_pending>>
    /\ UNCHANGED <<stage, s_log, s_committed, s_position, s_reply>>
    /\ StageFrame

\* the supervisor starts the process again (fetcher 22-29, summarizer 23-30):
\* the consumer resumes at the committed offset
StageRestart ==
    /\ s_pc \in {"down", "crashed"}
    /\ s_pc' = "poll"
    /\ s_position' = s_committed
    /\ s_offset' = -1
    /\ s_result' = NoResult
    /\ UNCHANGED <<stage, s_log, s_committed, s_queue, s_topic, s_pending, s_kills>>
    /\ UNCHANGED s_reply
    /\ StageFrame

----------------------------------------------------------------------------
(* The task dispatcher: the script controller/main.py                       *)

\* how many bills of BILLS the catalog of the model holds
NumBills == 2
\* how many messages the broker fails to deliver in one run
MaxFailures == 2

\* lines 16-24: the keys of QUESTIONS, in insertion order
QUESTIONS == <<1, 2, 3, 4, 5, 6, 7>>

BillEntry(t, n) == [bill_type |-> t, number |-> n]

\* lines 26-37
BILLS == <<BillEntry("hr", 1), BillEntry("hr", 5371), BillEntry("hr", 5401),
           BillEntry("s", 2296), BillEntry("s", 24), BillEntry("s", 2882),
           BillEntry("s", 499), BillEntry("sres", 412), BillEntry("hres", 353),
           BillEntry("hr", 1968)>>

Catalog == SubSeq(BILLS, 1, NumBills)

\* str.upper() on the bill types of BILLS
Upper(t) == CASE t = "hr" -> "HR" [] t = "s" -> "S"
              [] t = "sres" -> "SRES" [] t = "hres" -> "HRES"

\* line 47: f"{b['bill_type']}.{b['number']}".upper()
BillIdOf(b) == Upper(b.bill_type) \o "." \o ToString(b.number)

\* the pair the nested loops of lines 46-48 reach after n iterations
PairBill(n) == Catalog[(n \div Len(QUESTIONS)) + 1]
PairQid(n) == QUESTIONS[(n % Len(QUESTIONS)) + 1]

\* lines 49-66: the message of one pair; b is the catalog entry it is made of
TaskMsg(b, qid) ==
    [key |-> BillIdOf(b), bill_id |-> BillIdOf(b), question_id |-> qid, bill |-> b]

\* lines 39-43, mutated: a failed message is produced again
on_delivery_retry(err, i) ==
    /\ d_reported' = IF err THEN d_reported \cup {i} ELSE d_reported
    /\ d_sent' = IF err THEN Append(d_sent, d_sent[i]) ELSE d_sent

\* lines 39-43: the delivery callback logs the error and does nothing else
on_delivery(err, i) ==
    /\ d_reported' = IF err THEN d_reported \cup {i} ELSE d_reported
    /\ UNCHANGED d_sent

\* lines 46-67: one iteration of the nested loops
DispatchProduce ==
    /\ d_pc = "loop"
    /\ d_next < Len(Catalog) * Len(QUESTIONS)
    /\ d_sent' = Append(d_sent, TaskMsg(PairBill(d_next), PairQid(d_next)))
    /\ d_next' = d_next + 1
    /\ total' = total + 1
    /\ UNCHANGED <<d_pc, d_acks, d_failed, d_reported>>
    /\ UNCHANGED <<aggVars, histVars, stageVars, peerVars>>

\* lines 68-69: p.poll(0) and p.flush() serve the delivery report of the
\* oldest message that has none yet
DeliveryReport(err) ==
    /\ d_pc \in {"loop", "flush"}
    /\ d_acks < Len(d_sent)
    /\ err => Cardinality(d_failed) < MaxFailures
    /\ d_acks' = d_acks + 1
    /\ d_failed' = IF err THEN d_failed \cup {d_acks + 1} ELSE d_failed
    /\ on_delivery(err, d_acks + 1)
    /\ UNCHANGED <<d_pc, d_next, total>>
    /\ UNCHANGED <<aggVars, histVars, stageVars, peerVars>>

\* line 69: the loops are over, p.flush() is called
DispatchFlush ==
    /\ d_pc = "loop"
    /\ d_next = Len(Catalog) * Len(QUESTIONS)
    /\ d_pc' = "flush"
    /\ UNCHANGED <<d_next, d_sent, d_acks, d_failed, d_reported, total>>
    /\ UNCHANGED <<aggVars, histVars, stageVars, peerVars>>

\* lines 69-70: p.flush() returns when every message has its report
DispatchDone ==
    /\ d_pc = "flush"
    /\ d_acks = Len(d_sent)
    /\ d_pc' = "done"
    /\ UNCHANGED <<d_next, d_sent, d_acks, d_failed, d_reported, total>>
    /\ UNCHANGED <<aggVars, histVars, stageVars, peerVars>>

----------------------------------------------------------------------------
(* Specification of one aggregator on one partition *)

\* q1 answered with text t, then the other questions in order
RECURSIVE MergeFrom(_, _, _)
MergeFrom(b, bill_id, q) ==
    IF q > 7 THEN b
    ELSE MergeFrom(Merge(b, Data(bill_id, q, "a", LinksOf(q), MetaOf(q, "a"))),
                   bill_id, q + 1)

FullRecord(bill_id, t) ==
    MergeFrom(Merge(_init_bill(bill_id), Data(bill_id, 1, t, {}, MetaOf(1, t))),
              bill_id, 1)

\* what an earlier run of the process left in /output
InitFiles == {Missing, Garbled, Doc(<<>>), Doc(<<ArticleObj(FullRecord(OtherBill, "a"))>>)}

NoLatest == [x \in {} |-> ArticleObj(_init_bill(""))]

InitCommon ==
    /\ state = EmptyState
    /\ completed_bill_ids = {}
    /\ tmp_file = Missing
    /\ msg = NoMsg
    /\ existing = <<>>
    /\ wrote = "none"
    /\ uncommitted = <<>>
    /\ pos = 0
    /\ before = Missing
    /\ crashed_at = "none"
    /\ delivered = {}
    /\ latest = NoLatest
    /\ upsert_failed = FALSE
    /\ handled = <<>>

Init ==
    /\ InitCommon
    /\ StageIdle
    /\ DispatcherIdle
    /\ PeerIdle
    /\ pc = "poll"
    /\ articles_file \in InitFiles

NoHist == UNCHANGED histVars

Poll == (\E m \in Msgs : PollMsg(m)) /\ NoHist

Next ==
    \/ Poll
    \/ \E ok \in BOOLEAN :
        \/ OpenTmp(ok) /\ NoHist
        \/ DumpTmp(ok) /\ NoHist
        \/ Replace(ok) /\ NoHist
        \/ OpenOverwrite(ok) /\ NoHist
        \/ DumpOverwrite(ok) /\ NoHist
        \/ Unlink(ok) /\ NoHist
        \/ OpenRecreate(ok) /\ NoHist
        \/ DumpRecreate(ok) /\ NoHist
        \/ Cleanup(ok) /\ NoHist
    \/ EmitDone /\ NoHist
    \/ CommitHandled /\ NoHist
    \/ CommitBadJson /\ NoHist
    \/ CommitRaised /\ NoHist
    \/ Crash /\ NoHist
    \/ Restart /\ NoHist

Spec == Init /\ [][Next]_vars

----------------------------------------------------------------------------
(* Claims about one aggregator on one partition (Spec) *)

Articles == LoadExisting(articles_file)
HasArticle(bill_id) == \E i \in 1..Len(Articles) : Articles[i].bill_id = bill_id
IsValidSummary(s) == s # "" /\ s # PLACEHOLDER

\* msg went through the merge of handle_message (neither malformed nor dropped
\* at line 166) and the iteration wrote nothing
MergedOnly ==
    /\ pc = "handled"
    /\ wrote = "none"
    /\ msg.kind = "data"
    /\ IsWellFormed(msg)
    /\ msg.bill_id \notin completed_bill_ids

\* C1: once summaries[Q] of a bill's record has a value, no step of the
\* running process (any later PartialResult, whatever its text) changes it.
C1_FirstWriteWins ==
    [][pc' # "down" =>
        \A b \in DOMAIN state : \A q \in DOMAIN state[b].summaries :
            /\ b \in DOMAIN state'
            /\ q \in DOMAIN state'[b].summaries
            /\ state'[b].summaries[q] = state[b].summaries[q]]_vars

\* a second, different valid text for an answered question has been merged
C1_Witness ==
    /\ MergedOnly
    /\ IsValidSummary(msg.summary)
    /\ msg.question_id \in DOMAIN state[msg.bill_id].summaries
    /\ state[msg.bill_id].summaries[msg.question_id] # msg.summary

\* C2: handling a PartialResult for a bill already in completed_bill_ids
\* changes neither the table of records nor the persisted collection nor the
\* completed set, and starts no write.
C2_CompletedIsNoOp ==
    [][(pc = "poll" /\ pc' # "down" /\ msg'.kind = "data"
            /\ msg'.bill_id \in completed_bill_ids) =>
        /\ state' = state
        /\ articles_file' = articles_file
        /\ tmp_file' = tmp_file
        /\ completed_bill_ids' = completed_bill_ids
        /\ pc' = "handled"]_vars

\* a message carrying another title and another text was dropped after completion
C2_Witness ==
    /\ pc = "handled"
    /\ wrote = "none"
    /\ msg.bill_id \in completed_bill_ids
    /\ msg.metadata.bill_title # ""
    /\ msg.metadata.bill_title # state[msg.bill_id].bill_title
    /\ msg.summary # state[msg.bill_id].summaries[msg.question_id]

\* C5: no record's summaries mapping holds "" or the sentinel.
C5_NoPlaceholderStored ==
    \A b \in DOMAIN state : \A q \in DOMAIN state[b].summaries :
        state[b].summaries[q] # "" /\ state[b].summaries[q] # PLACEHOLDER

\* a sentinel summary was merged and its question has no entry
C5_Witness ==
    /\ MergedOnly
    /\ msg.summary = PLACEHOLDER
    /\ msg.question_id \notin DOMAIN state[msg.bill_id].summaries

\* C6: when handle_message raised, going back to poll leaves the offset of
\* the message uncommitted.
C6_NoCommitOnRaise ==
    [][(pc = "raised" /\ pc' = "poll") => uncommitted' = uncommitted]_vars

\* C7: every bill in completed_bill_ids has its Article in the collection.
C7_CompletedIsPersisted ==
    \A b \in completed_bill_ids : HasArticle(b)

\* C8: when all three strategies failed, the bill is not marked completed
\* and the offset of the triggering message is not committed.
C8_AllFailedNotCommitted ==
    [][(wrote = "swallowed" /\ pc \in {"written", "handled"} /\ pc' # "down") =>
        /\ msg.bill_id \notin completed_bill_ids'
        /\ uncommitted' = uncommitted]_vars

InAtomicPath ==
    \/ crashed_at \in {"open_tmp", "dump_tmp", "replace"}
    \/ crashed_at = "written" /\ wrote = "rename"

InWriteFile ==
    \/ InAtomicPath
    \/ crashed_at \in {"open_overwrite", "dump_overwrite", "unlink",
                       "open_recreate", "dump_recreate", "cleanup"}

----------------------------------------------------------------------------
(* Specification of the merge: a collection of PartialResults of one bill,  *)
(* each delivered once, in any order (SpecMerge)                            *)

MergeMsgs == BaseMsgs(Bill) \cup AltMsgs(Bill) \cup NullMsgs(Bill)

\* an upsert that raised or swallowed its last error is remembered
TrackFailure ==
    /\ upsert_failed' = (upsert_failed \/ pc' = "raised" \/ wrote' = "swallowed")
    /\ UNCHANGED <<delivered, latest, handled>>

Deliver ==
    /\ \E m \in MergeMsgs \ delivered :
        /\ PollMsg(m)
        /\ delivered' = delivered \cup {m}
    /\ UNCHANGED <<latest, upsert_failed, handled>>

NextMerge ==
    \/ Deliver
    \/ \E ok \in BOOLEAN :
        \/ OpenTmp(ok) /\ TrackFailure
        \/ DumpTmp(ok) /\ TrackFailure
        \/ Replace(ok) /\ TrackFailure
        \/ OpenOverwrite(ok) /\ TrackFailure
        \/ DumpOverwrite(ok) /\ TrackFailure
        \/ Unlink(ok) /\ TrackFailure
        \/ OpenRecreate(ok) /\ TrackFailure
        \/ DumpRecreate(ok) /\ TrackFailure
        \/ Cleanup(ok) /\ TrackFailure
    \/ EmitDone /\ NoHist
    \/ CommitHandled /\ NoHist
    \/ CommitRaised /\ NoHist

SpecMerge == Init /\ [][NextMerge]_vars

\* the messages of S merged into record b one after the other, in a fixed order
RECURSIVE MergeAll(_, _)
MergeAll(b, S) ==
    IF S = {} THEN b
    ELSE LET m == CHOOSE x \in S : TRUE
         IN  MergeAll(Merge(b, m), S \ {m})

\* no two valid results of the collection answer one question differently
Agreeing(D) ==
    /\ \A m \in D : m.question_id \in REQUIRED_QIDS
    /\ \A m1, m2 \in D :
        (IsValidSummary(m1.summary) /\ IsValidSummary(m2.summary)
            /\ m1.question_id = m2.question_id) => m1.summary = m2.summary

\* C3 as claimed: whatever the arrival order of the collection delivered so
\* far, the completed record's summaries are those of the fixed order.
C3_OrderIndependent ==
    Bill \in completed_bill_ids =>
        state[Bill].summaries = MergeAll(_init_bill(Bill), delivered).summaries

\* C3 amended: the same, for a collection in which all valid results of one
\* question (ids 1..7) carry the same text.
C3_OrderIndependentAgreeing ==
    (Bill \in completed_bill_ids /\ Agreeing(delivered)) =>
        state[Bill].summaries = MergeAll(_init_bill(Bill), delivered).summaries

\* completed from a collection holding the second text of question 1 and a
\* sentinel and an empty result besides the valid ones
C3_Witness ==
    /\ Bill \in completed_bill_ids
    /\ Agreeing(delivered)
    /\ NullMsgs(Bill) \subseteq delivered
    /\ AltMsgs(Bill) \cap delivered # {}
    /\ state[Bill].summaries[1] = "b"

\* exactly one valid PartialResult per question id so far
OnePerQuestion(D) ==
    /\ \A m \in D : IsValidSummary(m.summary) /\ m.question_id \in REQUIRED_QIDS
    /\ \A m1, m2 \in D : m1.question_id = m2.question_id => m1 = m2

ArticlesOf(bill_id) == {i \in 1..Len(Articles) : Articles[i].bill_id = bill_id}

\* C4: the bill is completed, and its Article written, only with all of 1..7
\* in its summaries; with one valid PartialResult per question and working
\* persistence there is no Article before the 7th message and exactly one,
\* with the bill completed, once the 7th has been handled.
C4_CompletionTest ==
    /\ (Bill \in completed_bill_ids \/ HasArticle(Bill)
            \/ pc \in {"open_tmp", "dump_tmp", "replace", "written"})
        => (Bill \in DOMAIN state /\ REQUIRED_QIDS \subseteq DOMAIN state[Bill].summaries)
    /\ (OnePerQuestion(delivered) /\ ~upsert_failed) =>
        /\ Cardinality(delivered) < 7 =>
            (~HasArticle(Bill) /\ Bill \notin completed_bill_ids)
        /\ (Cardinality(delivered) = 7 /\ pc = "poll") =>
            (Cardinality(ArticlesOf(Bill)) = 1 /\ Bill \in completed_bill_ids)

\* the 7th of seven valid results has been handled; question 1 came with "b"
C4_Witness ==
    /\ OnePerQuestion(delivered)
    /\ Cardinality(delivered) = 7
    /\ ~upsert_failed
    /\ pc = "poll"
    /\ Bill \in completed_bill_ids
    /\ state[Bill].summaries[1] = "b"
    /\ Cardinality(ArticlesOf(Bill)) = 1

----------------------------------------------------------------------------
(* Specification of the upsert alone: a caller of _write_articles_file      *)
(* (SpecUpsert)                                                             *)

UpsertArticles == {ArticleObj(FullRecord(b, t)) : b \in {Bill, OtherBill}, t \in Texts}

InitUpsert ==
    /\ InitCommon
    /\ StageIdle
    /\ DispatcherIdle
    /\ PeerIdle
    /\ pc = "caller"
    /\ articles_file \in {Missing, Garbled, Doc(<<>>)}

\* line 152: _write_articles_file(out_path, article_obj)
UpsertCall ==
    /\ pc = "caller"
    /\ \E a \in UpsertArticles : BeginUpsert(a)
    /\ wrote' = "none"
    /\ UNCHANGED <<state, completed_bill_ids, articles_file, tmp_file, msg,
                   uncommitted, pos, crashed_at>>
    /\ UNCHANGED histVars
    /\ OtherProcesses

\* the call returned (lines 104, 109, 116, 123) or raised (lines 100-101)
UpsertReturn ==
    /\ pc \in {"written", "raised"}
    /\ pc' = "caller"
    /\ latest' = IF pc = "written" /\ wrote # "swallowed"
                 THEN LET a == existing[Len(existing)] IN (a.bill_id :> a) @@ latest
                 ELSE latest
    /\ UNCHANGED <<state, completed_bill_ids, articles_file, tmp_file, msg, existing,
                   wrote, uncommitted, pos, before, crashed_at>>
    /\ UNCHANGED <<delivered, upsert_failed, handled>>
    /\ OtherProcesses

NextUpsert ==
    \/ UpsertCall
    \/ \E ok \in BOOLEAN :
        \/ OpenTmp(ok) /\ TrackFailure
        \/ DumpTmp(ok) /\ TrackFailure
        \/ Replace(ok) /\ TrackFailure
        \/ OpenOverwrite(ok) /\ TrackFailure
        \/ DumpOverwrite(ok) /\ TrackFailure
        \/ Unlink(ok) /\ TrackFailure
        \/ OpenRecreate(ok) /\ TrackFailure
        \/ DumpRecreate(ok) /\ TrackFailure
        \/ Cleanup(ok) /\ TrackFailure
    \/ UpsertReturn

SpecUpsert == InitUpsert /\ [][NextUpsert]_vars

----------------------------------------------------------------------------
(* Specification of one stage processor on one input partition (SpecStage)  *)

InitStage ==
    /\ InitCommon
    /\ pc = "idle"
    /\ articles_file = Missing
    /\ stage \in {"fetcher", "summarizer"}
    /\ s_pc = "poll"
    /\ s_log = <<>>
    /\ s_committed = 0
    /\ s_position = 0
    /\ s_offset = -1
    /\ s_result = NoResult
    /\ s_queue = <<>>
    /\ s_topic = <<>>
    /\ s_pending = {}
    /\ s_kills = 0
    /\ s_reply = <<>>
    /\ DispatcherIdle
    /\ PeerIdle

NextStage ==
    \/ \E m \in StageInputs(stage) : StagePoll(m)
    \/ \E replies \in [1..2 -> ApiReplies] \cup [1..1 -> ApiReplies] :
          /\ s_offset >= 0
          /\ Len(replies) = NumRequests(s_msg.question_id)
          /\ FetcherTransform(replies)
    \/ \E ok \in BOOLEAN, rs \in [1..max_retries -> Outcomes] : SummarizerTransform(ok, rs)
    \/ \E ok \in BOOLEAN : StageProduce(ok)
    \/ StageFlush
    \/ StageCommit
    \/ StageCommitRaised
    \/ \E sent \in BOOLEAN : StageCrash(sent)
    \/ StageRestart

SpecStage == InitStage /\ [][NextStage]_vars

Published(o) == \E i \in 1..Len(s_topic) : s_topic[i].src = o

\* C11: the offset of a successfully transformed message is committed only
\* after its output message has been published and flushed.
C11_CommitAfterPublish ==
    [][(s_committed' # s_committed /\ s_result.done) => Published(s_offset)]_vars

\* C12: when the transform or the publish of a decoded message has raised,
\* the iteration ends without committing the input offset.
C12_StageNoCommitOnRaise ==
    [][(s_pc = "raised" /\ s_pc' = "poll") => s_committed' = s_committed]_vars

\* C13: the committed offset of the summarizer never advances past a message
\* whose summary was empty, sentinel or None and that has no PartialResult
\* published yet.
C13_NoCommitPastPending ==
    stage = "summarizer" => \A o \in s_pending : s_committed <= o

\* C14: while a message whose summary was empty, sentinel or None has not
\* produced a valid summary, the summarizer processes no later message of
\* the partition.
C14_RetriesSameMessage ==
    stage = "summarizer" => \A o \in s_pending : s_offset <= o

\* C15: an input that cannot be decoded never ends the poll loop of the
\* stage: no such message leaves the process terminated.
C15_DecodeErrorNotFatal ==
    ~(s_pc = "crashed" /\ s_msg.kind # "ok")

\* C17: every link of every message published by a stage contains the
\* trusted domain, whatever the input carried.
C17_OnlyTrustedLinksPublished ==
    \A i \in 1..Len(s_topic) : \A u \in s_topic[i].links : IsTrusted(u)

\* C20: no message published to summaries.q has a summary that is None,
\* empty or the sentinel.
C20_NoPlaceholderPublished ==
    stage = "summarizer" =>
        \A i \in 1..Len(s_topic) :
            /\ ~s_topic[i].summary.is_none
            /\ IsValidSummary(s_topic[i].summary.text)

\* a PartialResult was published while another message of the partition had
\* an unusable summary and was held back
C20_Witness ==
    /\ stage = "summarizer"
    /\ Len(s_topic) > 0
    /\ s_pending # {}

----------------------------------------------------------------------------
(* Specification of the aggregator fed with malformed input (SpecDiscard)   *)

\* a PartialResult whose question_id is an integer that names no question
OutOfRange(b) == {Data(b, 0, "a", {}, NoMeta), Data(b, 8, "a", {}, NoMeta)}

DiscardMsgs == Malformed(Bill) \cup {BadJson, BoolQid(Bill)} \cup OutOfRange(Bill)
               \cup {Data(Bill, 2, "a", {}, NoMeta), Data(Bill, 3, "a", {}, NoMeta)}

PollDiscard == (\E m \in DiscardMsgs : PollMsg(m)) /\ NoHist

NextDiscard ==
    \/ PollDiscard
    \/ CommitHandled /\ NoHist
    \/ CommitBadJson /\ NoHist

SpecDiscard == Init /\ [][NextDiscard]_vars

\* the payload is not JSON, or bill_id is missing or empty, or question_id is
\* not an integer
IsMalformed(m) == m.kind = "badjson" \/ m.bill_id = "" \/ ~m.qid_int

\* C16: a malformed message changes neither the table of records, nor the
\* completed set, nor the persisted collection, and the iteration that
\* received it ends by committing its offset.
C16_MalformedIsDiscarded ==
    [][/\ (pc = "poll" /\ pc' # "poll" /\ IsMalformed(msg')) =>
            /\ state' = state
            /\ completed_bill_ids' = completed_bill_ids
            /\ articles_file' = articles_file
            /\ pc' \in {"handled", "badjson"}
       /\ (pc \in {"handled", "badjson"} /\ IsMalformed(msg)) =>
            /\ pc' = "poll"
            /\ uncommitted' = SubSeq(uncommitted, pos + 1, Len(uncommitted))
            /\ UNCHANGED <<state, completed_bill_ids, articles_file>>]_vars

----------------------------------------------------------------------------
(* Specification of one run of the dispatcher (SpecDispatch)                *)

InitDispatch ==
    /\ InitCommon
    /\ StageIdle
    /\ PeerIdle
    /\ pc = "idle"
    /\ articles_file = Missing
    /\ d_pc = "loop"
    /\ d_next = 0
    /\ d_sent = <<>>
    /\ d_acks = 0
    /\ d_failed = {}
    /\ d_reported = {}
    /\ total = 0

NextDispatch ==
    \/ DispatchProduce
    \/ \E err \in BOOLEAN : DeliveryReport(err)
    \/ DispatchFlush
    \/ DispatchDone

SpecDispatch == InitDispatch /\ [][NextDispatch]_vars

\* the indexes in d_sent of the messages of pair (b, qid)
SentFor(b, qid) ==
    {i \in 1..Len(d_sent) : d_sent[i].bill = b /\ d_sent[i].question_id = qid}

CatalogPairs ==
    {<<Catalog[k], QUESTIONS[j]>> : k \in 1..Len(Catalog), j \in 1..Len(QUESTIONS)}

\* C18: no pair of the catalog is published twice; every message is keyed by
\* the bill_id of its own bill; a failed delivery is reported; and when the
\* run is over each pair has been published exactly once, bills times 7
\* messages in all.
C18_OneTaskPerPair ==
    /\ \A pr \in CatalogPairs : Cardinality(SentFor(pr[1], pr[2])) <= 1
    /\ \A i \in 1..Len(d_sent) :
        /\ d_sent[i].key = BillIdOf(d_sent[i].bill)
        /\ <<d_sent[i].bill, d_sent[i].question_id>> \in CatalogPairs
    /\ d_failed = d_reported
    /\ d_pc = "done" =>
        /\ \A pr \in CatalogPairs : Cardinality(SentFor(pr[1], pr[2])) = 1
        /\ Len(d_sent) = Len(Catalog) * 7
        /\ total = Len(d_sent)

\* a finished run in which the delivery of a message failed
C18_Witness ==
    /\ d_pc = "done"
    /\ d_failed # {}
    /\ Cardinality(CatalogPairs) = NumBills * 7

----------------------------------------------------------------------------
(* Specification of an aggregator that is killed and restarted while the    *)
(* seven PartialResults of one bill arrive, each published once, in the     *)
(* order of their question ids (SpecRestart)                                *)

\* a message the bus redelivers, or else the next one of the bill
DeliverInOrder ==
    /\ \E m \in BaseMsgs(Bill) :
        /\ pos = Len(uncommitted) =>
              m \notin delivered /\ m.question_id = Cardinality(delivered) + 1
        /\ PollMsg(m)
        /\ delivered' = delivered \cup {m}
    /\ UNCHANGED <<latest, upsert_failed, handled>>

NextRestart ==
    \/ DeliverInOrder
    \/ \E ok \in BOOLEAN :
        \/ OpenTmp(ok) /\ TrackFailure
        \/ DumpTmp(ok) /\ TrackFailure
        \/ Replace(ok) /\ TrackFailure
        \/ OpenOverwrite(ok) /\ TrackFailure
        \/ DumpOverwrite(ok) /\ TrackFailure
        \/ Unlink(ok) /\ TrackFailure
        \/ OpenRecreate(ok) /\ TrackFailure
        \/ DumpRecreate(ok) /\ TrackFailure
        \/ Cleanup(ok) /\ TrackFailure
    \/ EmitDone /\ NoHist
    \/ CommitHandled /\ NoHist
    \/ CommitRaised /\ NoHist
    \/ Crash /\ NoHist
    \/ Restart /\ NoHist

SpecRestart == Init /\ [][NextRestart]_vars

\* C19: once all seven PartialResults of the bill have been delivered, handled
\* and committed, with every upsert working, the bill's Article is in the
\* collection, whether or not the process was restarted on the way.
C19_RestartRebuildsRecord ==
    (/\ delivered = BaseMsgs(Bill)
     /\ pc = "poll"
     /\ uncommitted = <<>>
     /\ ~upsert_failed) => HasArticle(Bill)

----------------------------------------------------------------------------
(* Claims about the order of the persistence strategies (SpecUpsert)        *)

Succeeded(w) == w \in {"rename", "overwrite", "recreate"}

\* C21: the direct overwrite starts only from a failed rename, the
\* delete-then-create only from a failed overwrite; the step on which a
\* strategy succeeds leaves the upserted sequence in the collection, and
\* from then on the call only cleans up and returns.
C21_StrategyOrder ==
    [][/\ (pc' = "open_overwrite" /\ pc # "open_overwrite") =>
            /\ pc = "replace"
            /\ wrote' = "none"
            /\ articles_file' = articles_file
       /\ (pc' = "unlink" /\ pc # "unlink") =>
            /\ pc \in {"open_overwrite", "dump_overwrite"}
            /\ wrote' = "none"
            /\ articles_file' = IF pc = "open_overwrite" THEN articles_file ELSE Garbled
       /\ (pc' \in {"open_recreate", "dump_recreate"}) =>
            pc \in {"unlink", "open_recreate"}
       /\ (~Succeeded(wrote) /\ Succeeded(wrote')) =>
            /\ articles_file' = Doc(existing)
            /\ pc' \in {"cleanup", "written"}
            /\ wrote' = CASE pc = "replace" -> "rename"
                          [] pc = "dump_overwrite" -> "overwrite"
                          [] OTHER -> "recreate"
       /\ (Succeeded(wrote) /\ pc \in {"cleanup", "written"}) =>
            /\ articles_file' = articles_file
            /\ pc' \in {"written", "caller"}]_vars

\* the third strategy succeeded after the first two had failed
C21_Witness ==
    /\ pc = "written"
    /\ wrote = "recreate"
    /\ articles_file = Doc(existing)
    /\ Len(existing) > 0

----------------------------------------------------------------------------
(* Specification of the merge with its history: the PartialResults of one   *)
(* bill arrive question after question, some of them again (SpecLog)        *)

\* how many times a message of an already answered question arrives
MaxRepeats == 1

\* the PartialResults of the bill: two texts and two committee lists for
\* question 1, committee ids with questions 2 and 4, a blank text for 5
LogPool ==
    {m \in BaseMsgs(Bill) : m.question_id # 4}
    \cup {Data(Bill, 1, t, {}, [MetaOf(1, t) EXCEPT
                                   !.bill_committee_ids = <<Item("ssju00")>>]) :
             t \in Texts \ {"a"}}
    \cup {Data(Bill, 4, "a", {}, [NoMeta EXCEPT
                     !.bill_committee_ids = <<Item("ssju00"), Item("hsju00")>>])}
    \cup {Data(Bill, 5, " ", {}, NoMeta)}

\* the highest question id handled so far
LastQ ==
    LET qs == {handled[i].data.question_id : i \in 1..Len(handled)} IN
    IF qs = {} THEN 0 ELSE CHOOSE q \in qs : \A r \in qs : r <= q

\* lines 214-215: handle_message(data); the call is remembered, with whether
\* it got past line 166
HandleLogged ==
    /\ \E m \in LogPool :
        /\ \/ m.question_id = LastQ + 1
           \/ m.question_id <= LastQ /\ Len(handled) - LastQ < MaxRepeats
        /\ PollMsg(m)
        /\ handled' = Append(handled,
                [data |-> m,
                 merged |-> ~SkipsCompleted(m.bill_id, completed_bill_ids)])
    /\ UNCHANGED <<delivered, latest, upsert_failed>>

NextLog ==
    \/ HandleLogged
    \/ \E ok \in BOOLEAN :
        \/ OpenTmp(ok) /\ TrackFailure
        \/ DumpTmp(ok) /\ TrackFailure
        \/ Replace(ok) /\ TrackFailure
        \/ OpenOverwrite(ok) /\ TrackFailure
        \/ DumpOverwrite(ok) /\ TrackFailure
        \/ Unlink(ok) /\ TrackFailure
        \/ OpenRecreate(ok) /\ TrackFailure
        \/ DumpRecreate(ok) /\ TrackFailure
        \/ Cleanup(ok) /\ TrackFailure
    \/ EmitDone /\ NoHist
    \/ CommitHandled /\ NoHist
    \/ CommitRaised /\ NoHist

SpecLog == Init /\ [][NextLog]_vars

\* the messages that were merged, in order
MergedLog == SelectSeq(handled, LAMBDA h : h.merged)

\* all string committee ids the merged messages carried, in order of arrival
RECURSIVE Carried(_)
Carried(log) ==
    IF log = <<>> THEN <<>>
    ELSE SelectSeq(Head(log).data.metadata.bill_committee_ids, LAMBDA x : x.is_str)
         \o Carried(Tail(log))

FirstIndex(seq, x) ==
    CHOOSE i \in 1..Len(seq) : seq[i] = x /\ \A j \in 1..(i - 1) : seq[j] # x

\* C22: the record's committee id list holds exactly the string ids carried
\* by the merged messages, each once, in the order of their first appearance.
C22_CommitteeUnion ==
    Bill \in DOMAIN state =>
        LET ids == state[Bill].bill_committee_ids
            all == Carried(MergedLog)
        IN  /\ {ids[i] : i \in 1..Len(ids)} = {all[i] : i \in 1..Len(all)}
            /\ \A i, j \in 1..Len(ids) : ids[i] = ids[j] => i = j
            /\ \A i, j \in 1..Len(ids) :
                  i < j => FirstIndex(all, ids[i]) < FirstIndex(all, ids[j])

\* three messages with overlapping lists, a non-string element among them
C22_Witness ==
    /\ Bill \in DOMAIN state
    /\ state[Bill].bill_committee_ids = <<Item("ssju00"), Item("hsju00")>>
    /\ Len(Carried(MergedLog)) = 5
    /\ Len(MergedLog) >= 4

\* the text of the first merged message that answers question q, "" if none
FirstText(q) ==
    LET idx == {i \in 1..Len(handled) :
                  /\ handled[i].merged
                  /\ handled[i].data.question_id = q
                  /\ IsValidSummary(handled[i].data.summary)}
    IN  IF idx = {} THEN ""
        ELSE handled[CHOOSE i \in idx : \A j \in idx : i <= j].data.summary

\* the question a block of the article belongs to
QOf(block) == IF block[1] = "" THEN 1 ELSE CHOOSE q \in 2..7 : Heading[q] = block[1]

\* C23: the Article of the bill starts with its "## bill" line; its blocks
\* follow in ascending question order, the lead of question 1 without a
\* heading and questions 2..7 under their headings; a question has a block
\* exactly when the first text merged for it is not blank, and the block
\* holds that text, trimmed.
C23_ArticleRendering ==
    \A n \in ArticlesOf(Bill) :
        LET c == Articles[n].article_content IN
        /\ c[1] = <<"##", Bill>>
        /\ \A k \in 2..Len(c) : c[k][1] = "" \/ \E q \in 2..7 : Heading[q] = c[k][1]
        /\ \A k, l \in 2..Len(c) : k < l => QOf(c[k]) < QOf(c[l])
        /\ \A q \in REQUIRED_QIDS :
              LET t == Strip(FirstText(q)) IN
              IF t = "" THEN \A k \in 2..Len(c) : QOf(c[k]) # q
              ELSE \E k \in 2..Len(c) : QOf(c[k]) = q /\ c[k][2] = t

\* an Article written after question 1 was answered twice with different
\* texts, and question 5 with a blank one
C23_Witness ==
    /\ HasArticle(Bill)
    /\ Len(handled) = 8
    /\ handled[1].data.summary = "b"
    /\ handled[2].data.question_id = 1
    /\ handled[2].data.summary = "a"
    /\ handled[6].data.summary = " "
    /\ \A n \in ArticlesOf(Bill) :
          /\ Len(Articles[n].article_content) = 7
          /\ Articles[n].article_content[2] = <<"", "b">>

\* the iteration that runs handles the same message as the one before it
InRepeat ==
    /\ pc # "poll"
    /\ Len(handled) >= 2
    /\ handled[Len(handled)].data = handled[Len(handled) - 1].data

\* a bill has all seven summaries and is not completed: its upsert raised
PendingEmit ==
    \E b \in DOMAIN state : _have_all(state[b].summaries) /\ b \notin completed_bill_ids

\* C24, as stated: no step of the second handling of a message changes the
\* records, the completed set or the collection.
C24_RepeatChangesNothing ==
    [][InRepeat' =>
          /\ state' = state
          /\ completed_bill_ids' = completed_bill_ids
          /\ articles_file' = articles_file]_vars

\* C24, amended: the same, when no upsert of the first handling raised.
C24_RepeatChangesNothingUnlessRetry ==
    [][(InRepeat' /\ ~PendingEmit) =>
          /\ state' = state
          /\ completed_bill_ids' = completed_bill_ids
          /\ articles_file' = articles_file]_vars

\* a message carrying a title and committee ids was handled twice in a row
C24_Witness ==
    /\ InRepeat
    /\ pc = "handled"
    /\ msg.question_id = 4
    /\ ~PendingEmit
    /\ Len(state[Bill].bill_committee_ids) = 2

\* a request of this iteration failed and none returned a body that is JSON
\* but not an object
Degraded(replies) ==
    /\ \E i \in DOMAIN replies : replies[i].kind \in ApiFailures
    /\ \A i \in DOMAIN replies : replies[i] # JsonList

\* what the first request contributes to the links: nothing when it failed
UrlsOf(reply) == IF reply.kind \in ApiFailures THEN {} ELSE reply.urls

\* C25: a failed request to the API (network error, timeout, non-2xx status,
\* empty or non-JSON body) counts as an empty result: the transform returns
\* what it returns for an empty object, the flush publishes exactly one
\* EnrichedFact for the task, and the commit that follows covers the task.
C25_FailedRequestDegrades ==
    [][(stage = "fetcher" /\ Degraded(s_reply')) =>
          /\ (s_pc = "transform" /\ s_pc' # "down") =>
                 /\ s_pc' = "produce"
                 /\ s_result' = build_facts_for_question(s_msg.question_id,
                                                         UrlsOf(s_reply'[1]))
          /\ (s_pc = "flush" /\ s_pc' = "commit") =>
                 /\ s_result.done
                 /\ s_topic' = Append(s_topic, OutMsg)
          /\ (s_pc = "commit" /\ s_pc' = "poll") =>
                 /\ Published(s_offset)
                 /\ s_committed' = s_offset + 1]_vars

\* the fetcher handled a task whose second request timed out: one
\* EnrichedFact with the links of the first request is published, the task
\* is committed
C25_Witness ==
    /\ stage = "fetcher"
    /\ s_pc = "poll"
    /\ s_kills = 0
    /\ Len(s_reply) = 2
    /\ s_reply[1] = JsonObject({WebLink, ApiLink})
    /\ s_reply[2].kind = "timeout"
    /\ Len(s_topic) = 1
    /\ s_topic[1].links = {WebLink}
    /\ s_committed = 1

\* C27: every key of the summaries mapping of every BillRecord is one of the
\* question ids 1..7, whatever integer question_id the messages carried.
C27_SummaryKeysInRange ==
    \A b \in DOMAIN state : DOMAIN state[b].summaries \subseteq REQUIRED_QIDS

----------------------------------------------------------------------------
(* Specification of two aggregator instances on disjoint partitions that    *)
(* share /output/articles.json and its .tmp path (SpecTwo). The first       *)
(* instance upserts Articles of Bill, the second one the Article of         *)
(* OtherBill. No file operation fails but os.replace on a temporary file    *)
(* that is gone. The files are tracked by path: an instance that holds a    *)
(* file open for writing finishes its json.dump before the other one steps. *)

PeerArticle == ArticleObj(FullRecord(OtherBill, "a"))

\* the states in which a file is open for writing (lines 100-101, 107-108)
Holding == {"dump_tmp", "dump_overwrite"}

PeerFrame == UNCHANGED <<aggVars, histVars, stageVars, dispVars>>

\* what a step of the second instance leaves alone of the first one
PeerFileFrame ==
    /\ UNCHANGED <<state, completed_bill_ids, pc, msg, existing, wrote,
                   uncommitted, pos, before, crashed_at>>
    /\ UNCHANGED <<histVars, stageVars, dispVars>>

\* lines 86-97 in the second instance: read the collection, upsert in memory
PeerRead ==
    /\ o_pc = "caller"
    /\ o_existing' = Upsert(LoadExisting(articles_file), PeerArticle)
    /\ o_pc' = "open_tmp"
    /\ PeerFrame

\* line 100 in the second instance
PeerOpenTmp ==
    /\ o_pc = "open_tmp"
    /\ tmp_file' = Garbled
    /\ o_pc' = "dump_tmp"
    /\ UNCHANGED <<articles_file, o_existing>>
    /\ PeerFileFrame

\* line 101 in the second instance
PeerDumpTmp ==
    /\ o_pc = "dump_tmp"
    /\ tmp_file' = Doc(o_existing)
    /\ o_pc' = "replace"
    /\ UNCHANGED <<articles_file, o_existing>>
    /\ PeerFileFrame

\* lines 102-105 in the second instance: the rename moves whatever is at the
\* temporary path, and raises OSError when nothing is
PeerReplace ==
    /\ o_pc = "replace"
    /\ IF tmp_file.kind # "missing"
       THEN articles_file' = tmp_file /\ tmp_file' = Missing /\ o_pc' = "done"
       ELSE o_pc' = "open_overwrite" /\ UNCHANGED <<articles_file, tmp_file>>
    /\ UNCHANGED o_existing
    /\ PeerFileFrame

\* line 107 in the second instance
PeerOpenOverwrite ==
    /\ o_pc = "open_overwrite"
    /\ articles_file' = Garbled
    /\ o_pc' = "dump_overwrite"
    /\ UNCHANGED <<tmp_file, o_existing>>
    /\ PeerFileFrame

\* lines 108-109 in the second instance
PeerDumpOverwrite ==
    /\ o_pc = "dump_overwrite"
    /\ articles_file' = Doc(o_existing)
    /\ o_pc' = "cleanup"
    /\ UNCHANGED <<tmp_file, o_existing>>
    /\ PeerFileFrame

\* lines 119-123 in the second instance
PeerCleanup ==
    /\ o_pc = "cleanup"
    /\ tmp_file' = Missing
    /\ o_pc' = "done"
    /\ UNCHANGED <<articles_file, o_existing>>
    /\ PeerFileFrame

\* the upserts of the first instance are those of Bill; the step changes
\* nothing of the second instance
OwnStep(A) ==
    /\ A
    /\ o_pc \notin Holding
    /\ UNCHANGED peerVars

\* line 152 in the first instance, for its own bill
UpsertOwn ==
    /\ UpsertCall
    /\ existing'[Len(existing')].bill_id = Bill

InitTwo ==
    /\ InitCommon
    /\ StageIdle
    /\ DispatcherIdle
    /\ pc = "caller"
    /\ articles_file \in {Missing, Doc(<<>>)}
    /\ o_pc = "caller"
    /\ o_existing = <<>>

NextTwo ==
    \/ OwnStep(UpsertOwn)
    \/ OwnStep(OpenTmp(TRUE) /\ TrackFailure)
    \/ OwnStep(DumpTmp(TRUE) /\ TrackFailure)
    \/ OwnStep(Replace(TRUE) /\ TrackFailure)
    \/ OwnStep(OpenOverwrite(TRUE) /\ TrackFailure)
    \/ OwnStep(DumpOverwrite(TRUE) /\ TrackFailure)
    \/ OwnStep(Cleanup(TRUE) /\ TrackFailure)
    \/ OwnStep(UpsertReturn)
    \/ pc \notin Holding /\ PeerRead
    \/ pc \notin Holding /\ PeerOpenTmp
    \/ pc \notin Holding /\ PeerDumpTmp
    \/ pc \notin Holding /\ PeerReplace
    \/ pc \notin Holding /\ PeerOpenOverwrite
    \/ pc \notin Holding /\ PeerDumpOverwrite
    \/ pc \notin Holding /\ PeerCleanup

SpecTwo == InitTwo /\ [][NextTwo]_vars

\* C26: when both instances have completed their bill and no upsert runs, the
\* shared collection holds an Article of each of the two bills.
C26_BothArticlesPersist ==
    (pc = "caller" /\ Bill \in DOMAIN latest /\ o_pc = "done") =>
        (HasArticle(Bill) /\ HasArticle(OtherBill))

----------------------------------------------------------------------------
(* Specification of the pipeline behind the fetcher (SpecPipe): facts.raw   *)
(* holds the seven EnrichedFacts of one bill, the summarizer consumes them  *)
(* and publishes to summaries.q, the aggregator consumes summaries.q. No    *)
(* process is killed and no file operation fails; the LLM may fail, or      *)
(* answer with the sentinel, any number of times.                           *)

\* the EnrichedFacts of the bill in the order the dispatcher sent the tasks
\* (controller 46-47: for bill, for question)
PipeFacts == [q \in 1..7 |-> InMsg(Bill, q, LinksOf(q))]

\* assembler 207-208: the decoded value of a message of summaries.q
PartialResult(o) ==
    Data(o.bill_id, o.question_id, IF o.summary.is_none THEN "" ELSE o.summary.text,
         o.links, NoMeta)

\* assembler 201-215: the next message of summaries.q is polled and handled
PipeDeliver ==
    /\ Cardinality(delivered) < Len(s_topic)
    /\ LET m == PartialResult(s_topic[Cardinality(delivered) + 1]) IN
         /\ PollMsg(m)
         /\ delivered' = delivered \cup {m}
    /\ UNCHANGED <<latest, upsert_failed, handled>>

InitPipe ==
    /\ InitCommon
    /\ pc = "poll"
    /\ articles_file = Missing
    /\ stage = "summarizer"
    /\ s_pc = "poll"
    /\ s_log = PipeFacts
    /\ s_committed = 0
    /\ s_position = 0
    /\ s_offset = -1
    /\ s_result = NoResult
    /\ s_queue = <<>>
    /\ s_topic = <<>>
    /\ s_pending = {}
    /\ s_kills = 0
    /\ s_reply = <<>>
    /\ DispatcherIdle
    /\ PeerIdle

NextPipe ==
    \/ s_position < Len(s_log) /\ StagePoll(s_log[s_position + 1])
    \/ \E ok \in BOOLEAN, rs \in [1..max_retries -> Outcomes] : SummarizerTransform(ok, rs)
    \/ \E ok \in BOOLEAN : StageProduce(ok)
    \/ StageFlush
    \/ StageCommit
    \/ StageCommitRaised
    \/ PipeDeliver
    \/ OpenTmp(TRUE) /\ TrackFailure
    \/ DumpTmp(TRUE) /\ TrackFailure
    \/ Replace(TRUE) /\ TrackFailure
    \/ EmitDone /\ NoHist
    \/ CommitHandled /\ NoHist

SpecPipe == InitPipe /\ [][NextPipe]_vars

\* the summarizer has polled every EnrichedFact and waits in poll; the
\* aggregator has handled every message of summaries.q and waits in poll:
\* no step of either process is left
Quiescent ==
    /\ s_pc = "poll"
    /\ s_position = Len(s_log)
    /\ pc = "poll"
    /\ Cardinality(delivered) = Len(s_topic)

\* C28: without crashes the pipeline does not come to rest before the bill
\* has its Article in the collection: a task whose summarization gave the
\* sentinel or whose transform raised is taken up again.
C28_NoRestWithoutArticle ==
    Quiescent => HasArticle(Bill)

====
